---- MODULE Spec2Model ----
(***************************************************************************)
(* A model of the redis-fetcher package: the RedisFetcher constructor, the *)
(* Fetch method, the built-in Lua pop-loop script as the redis server runs *)
(* it, and the default JSON transcoder over a tokenised JSON text.         *)
(***************************************************************************)
EXTENDS Integers, Sequences, FiniteSets, TLC

VARIABLES
    fetcher,    \* what the latest NewRedisFetcher call returned
    newOpts,    \* the option list the constructor is applied to (SpecNew)
    store,      \* the redis keyspace: key -> list of entries, head first
    nextId,     \* number of the next RPUSH; it names the pushed entry
    pushed,     \* history: entry -> the string that was pushed, <<>> if none
    pushedTo,   \* history: entry -> the key it was pushed to, "none" if none
    srvBusy,    \* the caller whose script the server is executing, or "none"
    calls,      \* per caller: the Fetch call it is in and that call's request
    pops,       \* history: entry -> how many LPOPs have returned it
    returns,    \* history: entry -> how many times Fetch returned its value
    lost,       \* history: entries popped for a call that returned an error
    codec       \* the latest direct call of the transcoder (SpecCodec)

vars == <<fetcher, newOpts, store, nextId, pushed, pushedTo, srvBusy, calls,
          pops, returns, lost, codec>>

----------------------------------------------------------------------------
(* Bounds of the model *)

MaxPush == 2     \* RPUSHes by producers in one behaviour
MaxOpts == 3     \* options handed to one NewRedisFetcher call
MaxInt == 3      \* largest magnitude of an ID handed to the transcoder

Callers == {"c1", "c2"}
Keys == {"q1", "q2"}
Ids == 1..MaxPush

\* The keys arguments of the Fetch calls: no key at all, or the queue q1.
KeyLists == {<<>>, <<"q1">>}

----------------------------------------------------------------------------
(* JSON text, as the sequence of its tokens *)

LB == [t |-> "{"]
RB == [t |-> "}"]
COLON == [t |-> ":"]
COMMA == [t |-> ","]
Str(s) == [t |-> "str", s |-> s]
Num(n) == [t |-> "num", n |-> n]

\* type TestTask struct { ID int `json:"id"`; Data string `json:"data"` }
ZeroTask == [ID |-> 0, Data |-> ""]

\* Go strings are byte strings. InvalidByte stands for the one-byte string
\* "\xff", which is not valid UTF-8; ReplacementChar for "\ufffd".
InvalidByte == "<ff>"
ReplacementChar == "<U+FFFD>"

\* json.Marshal writes a string as JSON text, which is UTF-8: bytes that are
\* not valid UTF-8 are written as U+FFFD.
ToValidUTF8(s) == IF s = InvalidByte THEN ReplacementChar ELSE s

\* The task a producer encodes for its n-th push: {ID: n, Data: "task"}
TaskOf(n) == [ID |-> n, Data |-> "task"]

\* json.Marshal of a TestTask: {"id":<ID>,"data":"<Data>"}
Encode(src) ==
    [str |-> <<LB, Str("id"), COLON, Num(src.ID), COMMA,
               Str("data"), COLON, Str(ToValidUTF8(src.Data)), RB>>,
     err |-> "nil"]

IsScalar(tok) == tok.t \in {"str", "num"}

\* After the closing brace nothing but the end of the input may follow.
DecodeEnd(src, i, entry) ==
    IF i > Len(src) THEN [val |-> entry, err |-> "nil"]
    ELSE [val |-> entry, err |-> "syntax"]

\* One struct field: "id" takes a number, "data" a string, any other key is
\* skipped. A value of the wrong JSON type is a type error.
FieldErr(key, tok) ==
    IF key = "id" /\ tok.t # "num" THEN "type"
    ELSE IF key = "data" /\ tok.t # "str" THEN "type"
    ELSE "nil"

SetField(entry, key, tok) ==
    IF key = "id" /\ tok.t = "num" THEN [entry EXCEPT !.ID = tok.n]
    ELSE IF key = "data" /\ tok.t = "str" THEN [entry EXCEPT !.Data = tok.s]
    ELSE entry

\* The members of the object from token i on: key : value, then , or }.
\* The decoder writes each field into entry as it goes and stops at the
\* first error.
RECURSIVE DecodeMembers(_, _, _)
DecodeMembers(src, i, entry) ==
    IF i + 2 > Len(src) THEN [val |-> entry, err |-> "syntax"]
    ELSE IF src[i].t # "str" \/ src[i + 1] # COLON \/ ~IsScalar(src[i + 2])
    THEN [val |-> entry, err |-> "syntax"]
    ELSE IF FieldErr(src[i].s, src[i + 2]) # "nil"
    THEN [val |-> entry, err |-> FieldErr(src[i].s, src[i + 2])]
    ELSE LET next == SetField(entry, src[i].s, src[i + 2]) IN
         IF i + 3 > Len(src) THEN [val |-> next, err |-> "syntax"]
         ELSE IF src[i + 3] = COMMA THEN DecodeMembers(src, i + 4, next)
         ELSE IF src[i + 3] = RB THEN DecodeEnd(src, i + 4, next)
         ELSE [val |-> next, err |-> "syntax"]

\* defaultTranscoder.Decode: var entry T; json.Unmarshal(src, &entry);
\* the entry is returned as the decoder left it, with the decoder's error.
Decode(src) ==
    IF Len(src) = 0 THEN [val |-> ZeroTask, err |-> "syntax"]
    ELSE IF src[1] # LB
    THEN [val |-> ZeroTask, err |-> IF IsScalar(src[1]) THEN "type" ELSE "syntax"]
    ELSE IF Len(src) >= 2 /\ src[2] = RB THEN DecodeEnd(src, 3, ZeroTask)
    ELSE DecodeMembers(src, 2, ZeroTask)

\* The malformed payload of the FailedDecodeValue test:
\*   {"name": "error_data", "value" 456
Malformed ==
    <<LB, Str("name"), COLON, Str("error_data"), COMMA, Str("value"), Num(456)>>

\* {"id":1,"data":7}: well-formed JSON whose "data" has the wrong type.
Mismatch ==
    <<LB, Str("id"), COLON, Num(1), COMMA, Str("data"), COLON, Num(7), RB>>

\* The strings a producer may push as the n-th entry: the n-th task,
\* encoded, or (to q1) the malformed text.
Payloads(k, n) ==
    IF k = "q1" THEN {Encode(TaskOf(n)).str, Malformed}
    ELSE {Encode(TaskOf(n)).str}

----------------------------------------------------------------------------
(* Construction: options.go and NewRedisFetcher *)

defaultTaskSize == 1000

\* The zero value of the RedisFetcher struct: &RedisFetcher[T]{}
ZeroFetcher ==
    [transcoder |-> "nil", rdb |-> "nil", extractCommand |-> "nil", size |-> 0]

WithClient(rdb) == [opt |-> "WithClient", rdb |-> rdb]
WithTranscoder(t) == [opt |-> "WithTranscoder", transcoder |-> t]
WithScript(src) == [opt |-> "WithScript", script |-> src]
WithTaskSize(size) == [opt |-> "WithTaskSize", size |-> size]

\* opt(fetcher): each option assigns its one field of the struct.
ApplyOption(o, r) ==
    CASE o.opt = "WithClient" -> [r EXCEPT !.rdb = o.rdb]
      [] o.opt = "WithTranscoder" -> [r EXCEPT !.transcoder = o.transcoder]
      [] o.opt = "WithScript" -> [r EXCEPT !.extractCommand = o.script]
      [] o.opt = "WithTaskSize" -> [r EXCEPT !.size = o.size]

\* for _, opt := range opts { opt(fetcher) }, from option i on
RECURSIVE ApplyOptions(_, _, _)
ApplyOptions(opts, i, r) ==
    IF i > Len(opts) THEN r
    ELSE ApplyOptions(opts, i + 1, ApplyOption(opts[i], r))

\* The defaults filled in after the options were applied.
DefaultCommand(r) ==
    IF r.extractCommand = "nil"
    THEN [r EXCEPT !.extractCommand = "defaultExtractCommand"] ELSE r

\* The size default with < in place of <=: a size of zero is kept.
DefaultSizeNegativeOnly(r) ==
    IF r.size < 0 THEN [r EXCEPT !.size = defaultTaskSize] ELSE r

DefaultSize(r) ==
    IF r.size <= 0 THEN [r EXCEPT !.size = defaultTaskSize] ELSE r

DefaultTranscoder(r) ==
    IF r.transcoder = "nil"
    THEN [r EXCEPT !.transcoder = "defaultTranscoder"] ELSE r

\* A constructor that takes the transcoder for mandatory as well.
NewRedisFetcherStrict(opts) ==
    LET applied == ApplyOptions(opts, 1, ZeroFetcher) IN
    IF applied.rdb = "nil" \/ applied.transcoder = "nil"
    THEN [ptr |-> "nil", f |-> ZeroFetcher, err |-> "ErrEmptyRedisClient"]
    ELSE [ptr |-> "fetcher",
          f |-> DefaultTranscoder(DefaultSize(DefaultCommand(applied))),
          err |-> "nil"]

\* NewRedisFetcher(opts...): (nil, ErrEmptyRedisClient) without a client,
\* otherwise (fetcher, nil) with the defaults filled in.
NewRedisFetcher(opts) ==
    LET applied == ApplyOptions(opts, 1, ZeroFetcher) IN
    IF applied.rdb = "nil"
    THEN [ptr |-> "nil", f |-> ZeroFetcher, err |-> "ErrEmptyRedisClient"]
    ELSE [ptr |-> "fetcher",
          f |-> DefaultTranscoder(DefaultSize(DefaultCommand(applied))),
          err |-> "nil"]

\* Before the first constructor call.
Unbuilt == [ptr |-> "unbuilt", f |-> ZeroFetcher, err |-> "nil"]

\* The options callers hand over. A transcoder supplied by the caller is a
\* defaultTranscoder value, as in the tests; callerScript is a script of the
\* caller's own.
ClientOptions == {WithClient("rdb"), WithClient("nil")}
TranscoderOptions == {WithTranscoder("defaultTranscoder"), WithTranscoder("nil")}
ScriptOptions == {WithScript("callerScript"), WithScript("nil")}
SizeOptions == {WithTaskSize(n) : n \in {-1, 0, 1}}
Options == ClientOptions \cup TranscoderOptions \cup ScriptOptions \cup SizeOptions

OptSeqs == UNION {[1..n -> Options] : n \in 0..MaxOpts}

\* Every outcome the constructor has on the option lists that leave the
\* built-in script in place: the Fetch calls that are followed step by step
\* are those of fetchers that run defaultExtractCommand.
BuiltInScript(opts) == \A i \in 1..Len(opts) : opts[i] # WithScript("callerScript")
Constructed == {NewRedisFetcher(opts) : opts \in {o \in OptSeqs : BuiltInScript(o)}}

----------------------------------------------------------------------------
(* The redis server: lists and the Lua pop-loop script *)

\* LINDEX key 0 in place of LPOP: the head is read and stays in the list.
PeekHead(st, key) ==
    IF Len(st[key]) = 0 THEN [found |-> FALSE, task |-> <<>>, st |-> st]
    ELSE [found |-> TRUE, task |-> <<Head(st[key])>>, st |-> st]

\* LMOVE key key LEFT RIGHT in place of LPOP: the head is returned and put
\* back at the tail.
PopRequeue(st, key) ==
    IF Len(st[key]) = 0 THEN [found |-> FALSE, task |-> <<>>, st |-> st]
    ELSE [found |-> TRUE, task |-> <<Head(st[key])>>,
          st |-> [st EXCEPT ![key] = Append(Tail(st[key]), Head(st[key]))]]

\* RPOP in place of LPOP: the entry is taken from the tail of the list.
PopTail(st, key) ==
    IF Len(st[key]) = 0 THEN [found |-> FALSE, task |-> <<>>, st |-> st]
    ELSE [found |-> TRUE, task |-> <<st[key][Len(st[key])]>>,
          st |-> [st EXCEPT ![key] = SubSeq(st[key], 1, Len(st[key]) - 1)]]

\* An LPOP that returns the head and removes the entry behind it as well.
PopDropsNext(st, key) ==
    IF Len(st[key]) = 0 THEN [found |-> FALSE, task |-> <<>>, st |-> st]
    ELSE [found |-> TRUE, task |-> <<Head(st[key])>>,
          st |-> [st EXCEPT ![key] = SubSeq(st[key], 3, Len(st[key]))]]

\* LMOVE key other LEFT RIGHT in place of LPOP: the head is returned and
\* put at the tail of the list under another key.
PopMoveToOther(st, key) ==
    IF Len(st[key]) = 0 THEN [found |-> FALSE, task |-> <<>>, st |-> st]
    ELSE LET other == CHOOSE k \in DOMAIN st : k # key IN
         [found |-> TRUE, task |-> <<Head(st[key])>>,
          st |-> [st EXCEPT ![key] = Tail(st[key]),
                            ![other] = Append(st[other], Head(st[key]))]]

\* redis.call('LPOP', key): the head of the list, or false when the list
\* is empty or the key does not exist.
LPOP(st, key) ==
    IF Len(st[key]) = 0 THEN [found |-> FALSE, task |-> <<>>, st |-> st]
    ELSE [found |-> TRUE, task |-> <<Head(st[key])>>,
          st |-> [st EXCEPT ![key] = Tail(st[key])]]

\* RPUSH key value by a producer: the value goes to the tail of the list.
RPUSH(st, key, entry) == [st EXCEPT ![key] = Append(st[key], entry)]

\* local key = KEYS[1]: nil when the call was made with no key at all.
\* A script that addresses the last of its keys: KEYS[#KEYS].
ScriptKeyLast(keys) == IF Len(keys) = 0 THEN "nil" ELSE keys[Len(keys)]

ScriptKey(keys) == IF Len(keys) = 0 THEN "nil" ELSE keys[1]

\* repeat ... until i > max_tasks in place of the for loop: the body runs
\* at least once.
LoopRunsAtLeastOnce(i, maxTasks) == i = 1 \/ i <= maxTasks

\* The loop with a bound one short: for i = 1, max_tasks - 1.
LoopRunsOneLess(i, maxTasks) == i <= maxTasks - 1

\* The loop with an off-by-one bound: for i = 0, max_tasks.
LoopRunsOneMore(i, maxTasks) == i <= maxTasks + 1

\* for i = 1, max_tasks do: the loop body runs for i while i <= max_tasks.
LoopRuns(i, maxTasks) == i <= maxTasks

----------------------------------------------------------------------------
(* Fetch: the decode loop over the reply of the script *)

NilSlice == [nil |-> TRUE, items |-> <<>>]
EmptySlice == [nil |-> FALSE, items |-> <<>>]

\* The decode loop with break in place of continue.
RECURSIVE DecodeLoopBreak(_, _, _)
DecodeLoopBreak(results, i, tasks) ==
    IF i > Len(results) THEN tasks
    ELSE LET d == Decode(results[i].raw) IN
         IF d.err # "nil" THEN tasks
         ELSE DecodeLoopBreak(results, i + 1,
                              Append(tasks, [val |-> d.val, src |-> results[i].id]))

\* A decode loop without the continue: what Decode returned is appended
\* whether or not it failed.
RECURSIVE DecodeLoopKeepsFailed(_, _, _)
DecodeLoopKeepsFailed(results, i, tasks) ==
    IF i > Len(results) THEN tasks
    ELSE LET d == Decode(results[i].raw) IN
         DecodeLoopKeepsFailed(results, i + 1,
                               Append(tasks, [val |-> d.val, src |-> results[i].id]))

\* for _, task := range results: a value that fails to decode is skipped
\* (continue), a decoded one is appended. Each appended value carries the
\* number of the entry it was decoded from (src), for the record only.
RECURSIVE DecodeLoop(_, _, _)
DecodeLoop(results, i, tasks) ==
    IF i > Len(results) THEN tasks
    ELSE LET d == Decode(results[i].raw) IN
         IF d.err # "nil" THEN DecodeLoop(results, i + 1, tasks)
         ELSE DecodeLoop(results, i + 1,
                         Append(tasks, [val |-> d.val, src |-> results[i].id]))

\* Fetch with var tasks []T in place of make([]T, 0): nil until appended to.
FetchReturnNilTasks(res) ==
    IF res.err # "nil" THEN [tasks |-> NilSlice, err |-> res.err]
    ELSE LET items == DecodeLoop(res.arr, 1, <<>>) IN
         [tasks |-> [nil |-> Len(items) = 0, items |-> items], err |-> "nil"]

\* Fetch that returns the decode error of the first entry that fails.
FetchReturnDecodeErr(res) ==
    IF res.err # "nil" THEN [tasks |-> NilSlice, err |-> res.err]
    ELSE IF \E j \in 1..Len(res.arr) : Decode(res.arr[j].raw).err # "nil"
    THEN [tasks |-> NilSlice,
          err |-> Decode(res.arr[CHOOSE j \in 1..Len(res.arr) :
                                     Decode(res.arr[j].raw).err # "nil"].raw).err]
    ELSE [tasks |-> [nil |-> FALSE, items |-> DecodeLoop(res.arr, 1, <<>>)],
          err |-> "nil"]

\* Fetch with return tasks, err in place of return nil, err.
FetchReturnTasksOnErr(res) ==
    IF res.err # "nil" THEN [tasks |-> EmptySlice, err |-> res.err]
    ELSE [tasks |-> [nil |-> FALSE, items |-> DecodeLoop(res.arr, 1, <<>>)],
          err |-> "nil"]

\* What Fetch returns for res, the outcome of extractCommand.Run(...).Result()
FetchReturn(res) ==
    IF res.err # "nil" THEN [tasks |-> NilSlice, err |-> res.err]
    ELSE IF Len(res.arr) > 0
    THEN [tasks |-> [nil |-> FALSE, items |-> DecodeLoop(res.arr, 1, <<>>)],
          err |-> "nil"]
    ELSE [tasks |-> EmptySlice, err |-> "nil"]

----------------------------------------------------------------------------
(* State *)

NoResult == [err |-> "nil", arr |-> <<>>]

\* The client side of a caller: where its Fetch call stands and what it got.
\*   pc: idle, run (waiting in Run(...).Result()), done (Fetch has returned)
\*   keys: the keys of the call;  res: the outcome of Run
\*   ran: how many times the call has invoked extractCommand.Run
\*   tasks, err: what Fetch returned
\* The server side of its request:
\*   req: none, pending, running, replied;  size: ARGV[1];  key: KEYS
\*   i, lua: the loop counter and the tasks table of the script
\*   reply: the reply of the script
\*   snap, left: the list under KEYS[1] when the script started and ended
\*   full: the keys of KEYS whose lists held entries when the script started
\*   execs: how many times the server has started the script for the call
IdleClient ==
    [pc |-> "idle", keys |-> <<>>, ran |-> 0, res |-> NoResult,
     tasks |-> NilSlice, err |-> "nil"]

NoRequest ==
    [req |-> "none", size |-> 0, key |-> <<>>, i |-> 0, lua |-> <<>>,
     reply |-> NoResult, snap |-> <<>>, left |-> <<>>, full |-> {},
     execs |-> 0]

IdleCall == [cl |-> IdleClient, rq |-> NoRequest]

\* A direct call of the transcoder: the method called, the value given to or
\* encoded by it, the string produced or consumed, and what Decode returned.
NoCodecCall ==
    [op |-> "none", src |-> ZeroTask, str |-> <<>>,
     entry |-> ZeroTask, err |-> "nil"]

\* Errors of the round trip that the client reports without a reply.
RunErrors == {"context canceled"}

IdsOf(entries) == {entries[j].id : j \in 1..Len(entries)}
SrcOf(items) == {items[j].src : j \in 1..Len(items)}

InitRest ==
    /\ store = [k \in Keys |-> <<>>]
    /\ nextId = 1
    /\ pushed = [id \in Ids |-> <<>>]
    /\ pushedTo = [id \in Ids |-> "none"]
    /\ srvBusy = "none"
    /\ calls = [c \in Callers |-> IdleCall]
    /\ pops = [id \in Ids |-> 0]
    /\ returns = [id \in Ids |-> 0]
    /\ lost = {}
    /\ codec = NoCodecCall

Init ==
    /\ fetcher = Unbuilt
    /\ newOpts = <<>>
    /\ InitRest

----------------------------------------------------------------------------
(* Actions *)

\* A caller constructs a fetcher from a list of options.
New ==
    /\ \E made \in Constructed : fetcher' = made
    /\ UNCHANGED <<codec, newOpts, store, nextId, pushed, pushedTo, srvBusy, calls,
                   pops, returns, lost>>

\* A server that runs an RPUSH between two commands of a script.
PushInsideScript(k, raw) ==
    /\ nextId <= MaxPush
    /\ store' = RPUSH(store, k, [id |-> nextId, raw |-> raw])
    /\ nextId' = nextId + 1
    /\ pushed' = [pushed EXCEPT ![nextId] = raw]
    /\ pushedTo' = [pushedTo EXCEPT ![nextId] = k]
    /\ UNCHANGED <<fetcher, codec, newOpts, srvBusy, calls, pops, returns, lost>>

\* A producer pushes a payload to the tail of a queue. The server runs one
\* command at a time, so not while a script is executing.
Push(k, raw) ==
    /\ nextId <= MaxPush
    /\ srvBusy = "none"
    /\ store' = RPUSH(store, k, [id |-> nextId, raw |-> raw])
    /\ nextId' = nextId + 1
    /\ pushed' = [pushed EXCEPT ![nextId] = raw]
    /\ pushedTo' = [pushedTo EXCEPT ![nextId] = k]
    /\ UNCHANGED <<fetcher, codec, newOpts, srvBusy, calls, pops, returns, lost>>

\* The client side of a call that has returned with the outcome res of Run.
Returned(cl, res) ==
    [cl EXCEPT !.pc = "done", !.res = res,
               !.tasks = FetchReturn(res).tasks, !.err = FetchReturn(res).err]

\* A Fetch that stores the size it has sent in the fetcher, capped at one.
FetchCallWritesSize(c, keys) ==
    /\ calls[c].cl.pc = "idle"
    /\ calls[c].rq.req = "none"
    /\ fetcher.ptr = "fetcher"
    /\ calls' = [calls EXCEPT
            ![c].cl = [@ EXCEPT !.pc = "run", !.keys = keys, !.ran = 1],
            ![c].rq = [NoRequest EXCEPT !.req = "pending", !.key = keys,
                                        !.size = fetcher.f.size]]
    /\ fetcher' = [fetcher EXCEPT !.f.size = 1]
    /\ UNCHANGED <<codec, newOpts, store, nextId, pushed, pushedTo, srvBusy, pops, returns, lost>>

\* The built-in script run with any number n as ARGV[1]:
\* defaultExtractCommand.Run(ctx, rdb, keys, n). The reply is awaited and
\* handled as in Fetch.
ScriptCall(c, keys, n) ==
    /\ calls[c].cl.pc = "idle"
    /\ calls[c].rq.req = "none"
    /\ calls' = [calls EXCEPT
            ![c].cl = [@ EXCEPT !.pc = "run", !.keys = keys, !.ran = 1],
            ![c].rq = [NoRequest EXCEPT !.req = "pending", !.key = keys,
                                        !.size = n]]
    /\ UNCHANGED <<fetcher, codec, newOpts, store, nextId, pushed, pushedTo,
                   srvBusy, pops, returns, lost>>

\* Fetch(ctx, keys) on a ready fetcher: extractCommand.Run(ctx, rdb, keys, size)
\* sends the request and waits for the reply.
FetchCall(c, keys) ==
    /\ calls[c].cl.pc = "idle"
    /\ calls[c].rq.req = "none"
    /\ fetcher.ptr = "fetcher"
    /\ calls' = [calls EXCEPT
            ![c].cl = [@ EXCEPT !.pc = "run", !.keys = keys, !.ran = 1],
            ![c].rq = [NoRequest EXCEPT !.req = "pending", !.key = keys,
                                        !.size = fetcher.f.size]]
    /\ UNCHANGED <<fetcher, codec, newOpts, store, nextId, pushed, pushedTo, srvBusy,
                   pops, returns, lost>>

\* Fetch(ctx, keys) after the owner has closed the client (rdb.Close()):
\* Run fails at once and nothing is sent.
FetchClosed(c, keys) ==
    /\ calls[c].cl.pc = "idle"
    /\ calls[c].rq.req = "none"
    /\ fetcher.ptr = "fetcher"
    /\ calls' = [calls EXCEPT ![c].cl =
            Returned([@ EXCEPT !.keys = keys, !.ran = 1],
                     [err |-> "client is closed", arr |-> <<>>])]
    /\ UNCHANGED <<fetcher, codec, newOpts, store, nextId, pushed, pushedTo, srvBusy,
                   pops, returns, lost>>

\* return tasks: the script ends, its reply is reply and the list under
\* KEYS[1] is left as it is in st.
Replied(rq, reply, st) ==
    [rq EXCEPT !.req = "replied", !.reply = reply,
               !.left = IF ScriptKey(rq.key) = "nil" THEN <<>>
                        ELSE st[ScriptKey(rq.key)]]

\* The server starts to execute the script of a request: tasks = {}. With
\* max_tasks below 1 the loop body never runs and the script returns the
\* empty table at once.
ScriptBegin(c) ==
    LET started ==
            [calls[c].rq EXCEPT
                !.req = "running", !.i = 1, !.lua = <<>>, !.execs = @ + 1,
                !.snap = IF ScriptKey(calls[c].rq.key) = "nil" THEN <<>>
                         ELSE store[ScriptKey(calls[c].rq.key)],
                !.full = {calls[c].rq.key[j] : j \in
                            {j \in 1..Len(calls[c].rq.key) :
                                store[calls[c].rq.key[j]] # <<>>}}]
    IN
    /\ calls[c].rq.req = "pending"
    /\ srvBusy = "none"
    /\ IF LoopRuns(1, calls[c].rq.size)
       THEN /\ srvBusy' = c
            /\ calls' = [calls EXCEPT ![c].rq = started]
       ELSE /\ srvBusy' = "none"
            /\ calls' = [calls EXCEPT ![c].rq =
                    Replied(started, [err |-> "nil", arr |-> <<>>], store)]
    /\ UNCHANGED <<fetcher, codec, newOpts, store, nextId, pushed, pushedTo,
                   pops, returns, lost>>

\* One iteration of for i = 1, max_tasks: LPOP, break on an empty list,
\* table.insert otherwise. After the break, or after the last iteration,
\* return tasks: the table goes back as the array reply and the server is
\* free again. LPOP without a key raises a script error, which ends the
\* script with an error reply.
ScriptLoop(c) ==
    LET rq == calls[c].rq IN
    /\ rq.req = "running"
    /\ srvBusy = c
    /\ LoopRuns(rq.i, rq.size)
    /\ IF ScriptKey(rq.key) = "nil"
       THEN /\ calls' = [calls EXCEPT ![c].rq =
                    Replied(rq, [err |-> "script error", arr |-> <<>>], store)]
            /\ srvBusy' = "none"
            /\ UNCHANGED <<store, pops, lost>>
       ELSE LET r == LPOP(store, ScriptKey(rq.key))
                tasks == rq.lua \o r.task
            IN
            /\ store' = r.st
            /\ IF r.found /\ LoopRuns(rq.i + 1, rq.size)
               THEN /\ calls' = [calls EXCEPT ![c].rq =
                            [@ EXCEPT !.lua = tasks, !.i = @ + 1]]
                    /\ UNCHANGED srvBusy
               ELSE /\ calls' = [calls EXCEPT ![c].rq =
                            Replied([rq EXCEPT !.lua = tasks],
                                    [err |-> "nil", arr |-> tasks], r.st)]
                    /\ srvBusy' = "none"
            /\ pops' = IF r.found
                       THEN [pops EXCEPT ![r.task[1].id] = @ + 1] ELSE pops
            /\ lost' = IF r.found /\ calls[c].cl.pc # "run"
                       THEN lost \cup {r.task[1].id} ELSE lost
    /\ UNCHANGED <<fetcher, codec, newOpts, nextId, pushed, pushedTo, returns>>

\* The reply reaches the waiting Fetch call, which decodes it and returns.
RunResult(c) ==
    /\ calls[c].cl.pc = "run"
    /\ calls[c].rq.req = "replied"
    /\ calls' = [calls EXCEPT ![c].cl = Returned(@, calls[c].rq.reply)]
    /\ returns' = [id \in Ids |->
            returns[id] + Cardinality({j \in 1..Len(calls'[c].cl.tasks.items) :
                                          calls'[c].cl.tasks.items[j].src = id})]
    /\ UNCHANGED <<fetcher, codec, newOpts, store, nextId, pushed, pushedTo, srvBusy,
                   pops, lost>>

\* A failing round trip with a compensating rollback: what the script has
\* popped so far is pushed back to the head of the list.
RunFailRollback(c, e) ==
    /\ calls[c].cl.pc = "run"
    /\ calls' = [calls EXCEPT ![c].cl = Returned(@, [err |-> e, arr |-> <<>>])]
    /\ lost' = lost \cup IdsOf(calls[c].rq.lua)
    /\ store' = IF ScriptKey(calls[c].rq.key) = "nil" THEN store
                ELSE [store EXCEPT ![ScriptKey(calls[c].rq.key)] =
                          calls[c].rq.lua \o @]
    /\ UNCHANGED <<fetcher, codec, newOpts, nextId, pushed, pushedTo, srvBusy, pops, returns>>

\* A Fetch that answers a failed round trip by running the command again:
\* the reply of the first execution is lost and a second request is sent.
RunFailRetry(c, e) ==
    /\ calls[c].cl.pc = "run"
    /\ calls[c].rq.req = "replied"
    /\ calls' = [calls EXCEPT
            ![c].cl = [@ EXCEPT !.ran = @ + 1],
            ![c].rq = [NoRequest EXCEPT !.req = "pending",
                                        !.key = calls[c].rq.key,
                                        !.size = calls[c].rq.size,
                                        !.execs = calls[c].rq.execs]]
    /\ lost' = lost \cup IdsOf(calls[c].rq.lua)
    /\ UNCHANGED <<fetcher, codec, newOpts, store, nextId, pushed, pushedTo,
                   srvBusy, pops, returns>>

\* The round trip fails at the client: the context is cancelled or the
\* connection is lost while the call waits, whatever the server has done or
\* will still do with the request.
RunFail(c, e) ==
    /\ calls[c].cl.pc = "run"
    /\ calls' = [calls EXCEPT ![c].cl = Returned(@, [err |-> e, arr |-> <<>>])]
    /\ lost' = lost \cup IdsOf(calls[c].rq.lua)
    /\ UNCHANGED <<fetcher, codec, newOpts, store, nextId, pushed, pushedTo, srvBusy,
                   pops, returns>>

\* The caller is done with the result of its call, and nothing of the
\* call is under way any more.
Return(c) ==
    /\ calls[c].cl.pc = "done"
    /\ calls[c].rq.req \in {"none", "replied"}
    /\ calls' = [calls EXCEPT ![c] = IdleCall]
    /\ UNCHANGED <<fetcher, codec, newOpts, store, nextId, pushed, pushedTo, srvBusy,
                   pops, returns, lost>>

\* The request of a call that has already failed is dropped on the way: it
\* never reaches the server.
Drop(c) ==
    /\ calls[c].cl.pc = "done"
    /\ calls[c].rq.req = "pending"
    /\ calls' = [calls EXCEPT ![c].rq = NoRequest]
    /\ UNCHANGED <<fetcher, codec, newOpts, store, nextId, pushed, pushedTo, srvBusy,
                   pops, returns, lost>>

Next ==
    \/ New
    \/ \E k \in Keys : \E raw \in Payloads(k, nextId) : Push(k, raw)
    \/ \E c \in Callers, keys \in KeyLists : FetchCall(c, keys)
    \/ \E c \in Callers, keys \in KeyLists : FetchClosed(c, keys)
    \/ \E c \in Callers : ScriptBegin(c)
    \/ \E c \in Callers : ScriptLoop(c)
    \/ \E c \in Callers : RunResult(c)
    \/ \E c \in Callers, e \in RunErrors : RunFail(c, e)
    \/ \E c \in Callers : Return(c)
    \/ \E c \in Callers : Drop(c)

Spec == Init /\ [][Next]_vars

----------------------------------------------------------------------------
(* The constructor alone, applied to every option list *)

InitNew ==
    /\ fetcher = Unbuilt
    /\ newOpts \in OptSeqs
    /\ InitRest

Construct ==
    /\ fetcher = Unbuilt
    /\ fetcher' = NewRedisFetcher(newOpts)
    /\ UNCHANGED <<codec, newOpts, store, nextId, pushed, pushedTo, srvBusy, calls,
                   pops, returns, lost>>

NextNew == Construct

SpecNew == InitNew /\ [][NextNew]_vars

----------------------------------------------------------------------------
(* Two callers that fetch from q1 over an open client, with the scheduling *)
(* the server gives: a script that is waiting at the server is started,    *)
(* and a started script runs to its end.                                   *)

NextLive ==
    \/ New
    \/ \E k \in Keys : \E raw \in Payloads(k, nextId) : Push(k, raw)
    \/ \E c \in Callers : FetchCall(c, <<"q1">>)
    \/ \E c \in Callers : ScriptBegin(c)
    \/ \E c \in Callers : ScriptLoop(c)
    \/ \E c \in Callers : RunResult(c)
    \/ \E c \in Callers, e \in RunErrors : RunFail(c, e)
    \/ \E c \in Callers : Return(c)
    \/ \E c \in Callers : Drop(c)

ServerStep == \E c \in Callers : ScriptBegin(c) \/ ScriptLoop(c)

SpecLive == Init /\ [][NextLive]_vars /\ WF_vars(ServerStep)

----------------------------------------------------------------------------
(* One caller that passes several keys to Fetch: Run hands all of them to *)
(* the script as KEYS.                                                     *)

ManyKeyLists == {<<"q1">>, <<"q1", "q2">>, <<"q2", "q1">>}

NextKeys ==
    \/ New
    \/ \E k \in Keys : \E raw \in Payloads(k, nextId) : Push(k, raw)
    \/ \E keys \in ManyKeyLists : FetchCall("c1", keys)
    \/ \E keys \in ManyKeyLists : FetchClosed("c1", keys)
    \/ ScriptBegin("c1")
    \/ ScriptLoop("c1")
    \/ RunResult("c1")
    \/ \E e \in RunErrors : RunFail("c1", e)
    \/ Return("c1")
    \/ Drop("c1")

SpecKeys == Init /\ [][NextKeys]_vars

----------------------------------------------------------------------------
(* The built-in script as a primitive of its own: two callers run it with *)
(* any max_tasks, zero and negative numbers included.                      *)

ScriptSizes == {-1, 0, 1}

NextScript ==
    \/ \E k \in Keys : \E raw \in Payloads(k, nextId) : Push(k, raw)
    \/ \E c \in Callers, n \in ScriptSizes : ScriptCall(c, <<"q1">>, n)
    \/ \E c \in Callers : ScriptBegin(c)
    \/ \E c \in Callers : ScriptLoop(c)
    \/ \E c \in Callers : RunResult(c)
    \/ \E c \in Callers, e \in RunErrors : RunFail(c, e)
    \/ \E c \in Callers : Return(c)
    \/ \E c \in Callers : Drop(c)

SpecScript == Init /\ [][NextScript]_vars

----------------------------------------------------------------------------
(* The default transcoder called directly: Encode on a task, Decode on the *)
(* string Encode produced, and Decode on any other text.                   *)

\* The tasks handed to Encode.
TaskValues ==
    [ID : (0 - MaxInt)..MaxInt, Data : {"", "task", InvalidByte}]

\* One token of a text replaced by another.
Replace(text, i, tok) == [text EXCEPT ![i] = tok]

\* The texts handed to Decode that Encode did not produce: the texts of the
\* tests, encodings cut short, and encodings with a value of another type.
Texts ==
    {Malformed, Mismatch}
    \cup {SubSeq(Encode(v).str, 1, n) : v \in TaskValues, n \in 0..8}
    \cup {Replace(Encode(v).str, 4, Str("one")) : v \in TaskValues}
    \cup {Replace(Encode(v).str, 8, Num(v.ID)) : v \in TaskValues}

EncodeCall(v) ==
    /\ codec' = [op |-> "Encode", src |-> v, str |-> Encode(v).str,
                 entry |-> ZeroTask, err |-> Encode(v).err]
    /\ UNCHANGED <<fetcher, newOpts, store, nextId, pushed, pushedTo,
                   srvBusy, calls, pops, returns, lost>>

\* Decode of the string the preceding Encode returned.
DecodeEncoded ==
    /\ codec.op = "Encode"
    /\ codec.err = "nil"
    /\ codec' = [codec EXCEPT !.op = "DecodeEncoded",
                              !.entry = Decode(codec.str).val,
                              !.err = Decode(codec.str).err]
    /\ UNCHANGED <<fetcher, newOpts, store, nextId, pushed, pushedTo,
                   srvBusy, calls, pops, returns, lost>>

DecodeCall(text) ==
    /\ codec' = [op |-> "Decode", src |-> ZeroTask, str |-> text,
                 entry |-> Decode(text).val, err |-> Decode(text).err]
    /\ UNCHANGED <<fetcher, newOpts, store, nextId, pushed, pushedTo,
                   srvBusy, calls, pops, returns, lost>>

NextCodec ==
    \/ \E v \in TaskValues : EncodeCall(v)
    \/ DecodeEncoded
    \/ \E text \in Texts : DecodeCall(text)

SpecCodec == Init /\ [][NextCodec]_vars

----------------------------------------------------------------------------
(* Properties *)

Client(c) == calls[c].cl
Request(c) == calls[c].rq

\* Fetch has returned to caller c, with no error.
Succeeded(c) == Client(c).pc = "done" /\ Client(c).err = "nil"

\* The entry was pushed as the encoding of the producer's task.
Decodable(e) == e.raw = Encode(TaskOf(e.id)).str

\* C1: a successful Fetch of a fetcher with batch size S returns at most S
\* items (and its script popped at most S entries), however many entries
\* the queue held when the script started.
C1_AtMostBatchSize ==
    \A c \in Callers :
        Succeeded(c) =>
            /\ Len(Client(c).tasks.items) <= Request(c).size
            /\ Len(Client(c).res.arr) <= Request(c).size

\* A successful Fetch on a queue that held more than S entries returned S.
C1_Witness ==
    \E c \in Callers :
        /\ Succeeded(c)
        /\ Len(Request(c).snap) > Request(c).size
        /\ Len(Client(c).tasks.items) = Request(c).size

\* C2: when the queue holds N <= S entries, all of them encodings of tasks,
\* at the moment the script of a Fetch starts, the Fetch returns exactly
\* those N tasks, in the order in which they were pushed.
C2_FifoAll ==
    \A c \in Callers :
        LET snap == Request(c).snap IN
        (/\ Succeeded(c)
         /\ Len(snap) <= Request(c).size
         /\ \A j \in 1..Len(snap) : Decodable(snap[j]))
        => /\ Client(c).tasks.items =
                  [j \in 1..Len(snap) |->
                      [val |-> TaskOf(snap[j].id), src |-> snap[j].id]]
           /\ \A j \in 1..(Len(snap) - 1) : snap[j].id < snap[j + 1].id

\* A Fetch returned two tasks that were pushed to the empty queue.
C2_Witness ==
    \E c \in Callers :
        /\ Succeeded(c)
        /\ Len(Request(c).snap) = 2
        /\ \A j \in 1..2 : Decodable(Request(c).snap[j])
        /\ Len(Client(c).tasks.items) = 2

InStore(id) == \E k \in Keys : id \in IdsOf(store[k])

\* C3: no entry is popped for, or returned by, more than one Fetch call:
\* what two callers' scripts have popped and what their calls returned are
\* disjoint, and over all calls each entry is popped and returned at most
\* once.
C3_NoOverlap ==
    /\ \A id \in Ids : pops[id] <= 1 /\ returns[id] <= 1
    /\ \A c, d \in Callers :
          c # d =>
            /\ IdsOf(Request(c).lua) \cap IdsOf(Request(d).lua) = {}
            /\ SrcOf(Client(c).tasks.items) \cap SrcOf(Client(d).tasks.items) = {}

\* Two Fetch calls are under way at once and the script of each has popped.
C3_Witness ==
    \A c \in Callers :
        /\ Client(c).pc = "run"
        /\ Request(c).req = "replied"
        /\ Request(c).lua # <<>>

\* The reply of the script has reached caller c and Fetch returned on it.
Delivered(c) ==
    /\ Client(c).pc = "done"
    /\ Request(c).req = "replied"
    /\ Client(c).res = Request(c).reply

\* C4: a Fetch whose script found the list of its key empty (or the key
\* missing) returns an empty, non-nil sequence and no error, and the list
\* is empty when the script ends.
C4_EmptyQueue ==
    \A c \in Callers :
        (Delivered(c) /\ Len(Client(c).keys) > 0 /\ Request(c).snap = <<>>)
        => /\ Client(c).tasks = EmptySlice
           /\ Client(c).err = "nil"
           /\ Request(c).left = <<>>

\* A Fetch on the empty queue q1 has returned.
C4_Witness ==
    \E c \in Callers :
        /\ Delivered(c)
        /\ Client(c).keys = <<"q1">>
        /\ Request(c).snap = <<>>

DecodesOk(e) == Decode(e.raw).err = "nil"

\* The popped entries that decode, each as its decoded value.
DecodedOf(arr) ==
    LET ok == SelectSeq(arr, DecodesOk) IN
    [j \in 1..Len(ok) |-> [val |-> Decode(ok[j].raw).val, src |-> ok[j].id]]

\* C5: a successful Fetch returns exactly the popped entries that decode,
\* in pop order; an entry that fails to decode is left out and changes
\* nothing else.
C5_SkipsMalformed ==
    \A c \in Callers :
        Succeeded(c) => Client(c).tasks.items = DecodedOf(Client(c).res.arr)

\* A Fetch popped a malformed entry followed by a valid one and returned
\* the valid one alone.
C5_Witness ==
    \E c \in Callers :
        /\ Succeeded(c)
        /\ Len(Client(c).res.arr) = 2
        /\ ~DecodesOk(Client(c).res.arr[1])
        /\ DecodesOk(Client(c).res.arr[2])
        /\ Len(Client(c).tasks.items) = 1

\* C6: Fetch returns an error only when Run returned one; entries that fail
\* to decode never make it return an error.
C6_ErrorOnlyFromRun ==
    \A c \in Callers :
        Client(c).pc = "done" =>
            /\ Client(c).err # "nil" => Client(c).res.err # "nil"
            /\ (Client(c).res.err = "nil"
                /\ \E j \in 1..Len(Client(c).res.arr) : ~DecodesOk(Client(c).res.arr[j]))
               => Client(c).err = "nil"

\* A Fetch whose batch held an entry that does not decode has returned.
C6_Witness ==
    \E c \in Callers :
        /\ Delivered(c)
        /\ Client(c).res.err = "nil"
        /\ \E j \in 1..Len(Client(c).res.arr) : ~DecodesOk(Client(c).res.arr[j])

\* C7: when Run fails, Fetch returns a nil result and the error of Run as it
\* is; every outcome is a non-nil sequence without an error, or a nil result
\* with an error.
C7_NilOnError ==
    \A c \in Callers :
        Client(c).pc = "done" =>
            /\ Client(c).res.err # "nil" =>
                  Client(c).tasks = NilSlice /\ Client(c).err = Client(c).res.err
            /\ \/ ~Client(c).tasks.nil /\ Client(c).err = "nil"
               \/ Client(c).tasks = NilSlice /\ Client(c).err # "nil"

\* A Fetch returned the error reply of the script.
C7_Witness ==
    \E c \in Callers :
        /\ Delivered(c)
        /\ Client(c).err = "script error"

\* C8: an entry that a script has popped is gone from the queue, is never
\* popped again, and, when it does not decode, is never returned.
C8_PoppedIsGone ==
    \A id \in Ids :
        pops[id] >= 1 =>
            /\ pops[id] = 1
            /\ ~InStore(id)
            /\ returns[id] <= 1
            /\ Decode(pushed[id]).err # "nil" => returns[id] = 0

\* A malformed entry was popped by a call that is over, and a later Fetch
\* has returned since.
C8_Witness ==
    \E id \in Ids :
        /\ pushed[id] = Malformed
        /\ pops[id] = 1
        /\ \A c \in Callers : id \notin IdsOf(Request(c).lua)
        /\ \E c \in Callers : Delivered(c) /\ Client(c).err = "nil"

\* C9: when the round trip fails at the client, Fetch returns a nil result
\* and the error; what the script of that call pops is out of the queue for
\* good and is returned to no caller.
C9_LostOnCancel ==
    /\ \A c \in Callers :
          (Client(c).pc = "done" /\ Client(c).res.err \in RunErrors)
          => /\ Client(c).tasks = NilSlice
             /\ Client(c).err = Client(c).res.err
             /\ IdsOf(Request(c).lua) \subseteq lost
    /\ \A id \in lost : pops[id] = 1 /\ ~InStore(id) /\ returns[id] = 0

\* A call was cancelled after its script had popped entries.
C9_Witness ==
    \E c \in Callers :
        /\ Client(c).pc = "done"
        /\ Client(c).err \in RunErrors
        /\ Request(c).req = "replied"
        /\ Request(c).lua # <<>>

\* The options leave a client set: the last WithClient carries one.
ClientSupplied(opts) ==
    \E i \in 1..Len(opts) :
        /\ opts[i].opt = "WithClient"
        /\ opts[i].rdb # "nil"
        /\ \A j \in (i + 1)..Len(opts) : opts[j].opt # "WithClient"

\* C10: NewRedisFetcher returns no instance and ErrEmptyRedisClient exactly
\* when its options leave no client set; otherwise it returns an instance
\* with every field set, and no error.
C10_FailsIffNoClient ==
    fetcher # Unbuilt =>
        IF ClientSupplied(newOpts)
        THEN /\ fetcher.ptr = "fetcher"
             /\ fetcher.err = "nil"
             /\ fetcher.f.rdb = "rdb"
             /\ fetcher.f.extractCommand # "nil"
             /\ fetcher.f.transcoder # "nil"
        ELSE /\ fetcher.ptr = "nil"
             /\ fetcher.err = "ErrEmptyRedisClient"

\* The constructor got a client and no transcoder and returned an instance.
C10_Witness ==
    /\ fetcher.ptr = "fetcher"
    /\ ClientSupplied(newOpts)
    /\ \A i \in 1..Len(newOpts) : newOpts[i].opt # "WithTranscoder"

\* The size the options ask for: that of the last WithTaskSize, 0 (the zero
\* value of the field) when there is none.
SizeAsked(opts) ==
    LET at == {i \in 1..Len(opts) : opts[i].opt = "WithTaskSize"} IN
    IF at = {} THEN 0
    ELSE opts[CHOOSE i \in at : \A j \in at : j <= i].size

\* C11: a constructed fetcher has a batch size > 0: the default 1000 when
\* the size asked for is zero, negative or missing, and the size asked for
\* when that is positive, in whatever order and however often the options
\* come (the last WithTaskSize is the one that counts).
C11_SizePositive ==
    fetcher.ptr = "fetcher" =>
        /\ fetcher.f.size > 0
        /\ SizeAsked(newOpts) <= 0 => fetcher.f.size = defaultTaskSize
        /\ SizeAsked(newOpts) > 0 => fetcher.f.size = SizeAsked(newOpts)

\* A fetcher was constructed from a positive size followed by a zero size.
C11_Witness ==
    /\ fetcher.ptr = "fetcher"
    /\ \E i, j \in 1..Len(newOpts) :
          /\ i < j
          /\ newOpts[i] = WithTaskSize(1)
          /\ newOpts[j] = WithTaskSize(0)
    /\ fetcher.f.size = defaultTaskSize

\* C12: no step of a Fetch call (every such step changes the record of a
\* call) changes a field of the fetcher; the fetcher changes only when the
\* constructor returns a new one.
C12_FetcherImmutable ==
    [][calls' # calls => fetcher' = fetcher]_vars

\* On a ready fetcher one Fetch has succeeded and another has failed.
C12_Witness ==
    /\ fetcher.ptr = "fetcher"
    /\ \E c, d \in Callers :
          /\ Delivered(c) /\ Client(c).err = "nil"
          /\ Client(d).pc = "done" /\ Client(d).err # "nil"

----------------------------------------------------------------------------
\* C13 (as stated): a Fetch with more than one key pops entries from the list
\* of every given key: each listed key whose list held entries when the
\* script ran has had an entry popped by the call.
C13_EveryKeyDrained ==
    \A c \in Callers :
        (Request(c).req = "replied" /\ Request(c).reply.err = "nil") =>
            \A k \in Request(c).full :
                \E j \in 1..Len(Request(c).lua) :
                    pushedTo[Request(c).lua[j].id] = k

\* C13 (amended): of the keys given to Fetch the built-in script addresses
\* only the first: every popped entry comes from the list of KEYS[1], which
\* is popped from its head until it is empty or the batch is full.
C13_OnlyFirstKey ==
    \A c \in Callers :
        (Request(c).req = "replied" /\ Request(c).reply.err = "nil") =>
            /\ \A j \in 1..Len(Request(c).lua) :
                   pushedTo[Request(c).lua[j].id] = Request(c).key[1]
            /\ Request(c).lua \o Request(c).left = Request(c).snap
            /\ \/ Request(c).left = <<>>
               \/ Len(Request(c).lua) = Request(c).size

C13_Witness ==
    \E c \in Callers :
        /\ Delivered(c)
        /\ Len(Request(c).key) = 2
        /\ Request(c).key[2] \in Request(c).full
        /\ Request(c).lua # <<>>

----------------------------------------------------------------------------
\* C14: for every value v the default transcoder encodes, Decode(Encode(v))
\* succeeds and returns a value equal to v.
C14_RoundTrip ==
    codec.op = "DecodeEncoded" =>
        /\ codec.err = "nil"
        /\ codec.entry = codec.src

\* C15: whenever Decode fails, on a syntax error or on a type mismatch, the
\* value it returns with the error is the zero value of T.
C15_ZeroOnFailure ==
    (codec.op \in {"Decode", "DecodeEncoded"} /\ codec.err # "nil") =>
        codec.entry = ZeroTask

----------------------------------------------------------------------------
Min(a, b) == IF a <= b THEN a ELSE b

\* C16: a script that ends without error on a list of L entries with limit
\* S has popped exactly the first min(L, S) entries, in order, and leaves
\* exactly the other L - min(L, S) entries in the list, in their order.
C16_PopsHeadRun ==
    \A c \in Callers :
        LET rq == Request(c)
            n == Min(Len(rq.snap), rq.size)
        IN
        (rq.req = "replied" /\ rq.reply.err = "nil") =>
            /\ rq.reply.arr = SubSeq(rq.snap, 1, n)
            /\ rq.left = SubSeq(rq.snap, n + 1, Len(rq.snap))
            /\ Len(rq.left) = Len(rq.snap) - n

\* A script with limit 1 ended on a list of two entries, and one with a
\* limit above the length of its list ended on a list that held entries.
C16_Witness ==
    /\ \E c \in Callers :
        /\ Request(c).req = "replied"
        /\ Request(c).reply.err = "nil"
        /\ Len(Request(c).snap) = 2
        /\ Request(c).size = 1
        /\ Len(Request(c).left) = 1
    /\ \E c \in Callers :
        /\ Request(c).req = "replied"
        /\ Request(c).reply.err = "nil"
        /\ Request(c).snap # <<>>
        /\ Request(c).size > Len(Request(c).snap)
        /\ Request(c).left = <<>>

----------------------------------------------------------------------------
\* C17: the script is indivisible. While the script of a call is between
\* two of its pops, what it has popped followed by what the list holds is
\* the list as it stood when the script started, so no push and no pop of
\* another caller has taken effect since; no other script is running; and
\* when it ends, what it popped is a run from the head of that one list.
C17_Indivisible ==
    \A c \in Callers :
        LET rq == Request(c) IN
        /\ (rq.req = "running" /\ rq.key # <<>>) =>
              /\ rq.lua \o store[ScriptKey(rq.key)] = rq.snap
              /\ \A d \in Callers \ {c} : Request(d).req # "running"
        /\ (rq.req = "replied" /\ rq.reply.err = "nil") =>
              rq.reply.arr = SubSeq(rq.snap, 1, Len(rq.reply.arr))

\* A script is between two pops of its batch while a producer still has a
\* push to make and the other caller's request is waiting at the server.
C17_Witness ==
    \E c, d \in Callers :
        /\ Request(c).req = "running"
        /\ Request(c).lua # <<>>
        /\ Request(d).req = "pending"
        /\ Request(d).key = Request(c).key
        /\ nextId <= MaxPush

----------------------------------------------------------------------------
\* C18: a step of a Fetch call, of one that succeeds and of one that fails,
\* leaves the list under every key other than the first key of the call as
\* it was, and puts no entry into any list: no list is created or grows.
C18_OtherKeysUnchanged ==
    [][\A c \in Callers :
          calls'[c] # calls[c] =>
              \A k \in Keys :
                  /\ (calls[c].rq.key = <<>> \/ k # calls[c].rq.key[1]) =>
                         store'[k] = store[k]
                  /\ Len(store'[k]) <= Len(store[k])
                  /\ store'[k] =
                         SubSeq(store[k], Len(store[k]) - Len(store'[k]) + 1,
                                Len(store[k]))]_vars

\* A call that returned an error had entries popped by its script while the
\* list under the second of its keys held entries.
C18_Witness ==
    \E c \in Callers :
        /\ Client(c).pc = "done"
        /\ Client(c).err # "nil"
        /\ Request(c).req = "replied"
        /\ Request(c).lua # <<>>
        /\ Len(Request(c).key) = 2
        /\ Request(c).key[2] \in Request(c).full
        /\ store[Request(c).key[2]] # <<>>

----------------------------------------------------------------------------
\* C19: the script run with max_tasks <= 0, or on a key under which there
\* is no list, replies with the empty array and no error, and has removed
\* nothing: it popped no entry and the list is as it was.
C19_EmptyNoError ==
    \A c \in Callers :
        LET rq == Request(c) IN
        (/\ rq.req = "replied"
         /\ rq.key # <<>>
         /\ rq.size <= 0 \/ rq.snap = <<>>)
        => /\ rq.reply = [err |-> "nil", arr |-> <<>>]
           /\ rq.lua = <<>>
           /\ rq.left = rq.snap

\* One script ended with max_tasks <= 0 on a list that held entries, and
\* one with max_tasks > 0 on a key without a list.
C19_Witness ==
    \E c, d \in Callers :
        /\ Request(c).req = "replied"
        /\ Request(c).size <= 0
        /\ Request(c).snap # <<>>
        /\ Request(d).req = "replied"
        /\ Request(d).size > 0
        /\ Request(d).key # <<>>
        /\ Request(d).snap = <<>>

----------------------------------------------------------------------------
\* C20: a Fetch call invokes the extraction command once and the server
\* executes it at most once for the call, exactly once when the call got a
\* reply: the call's script pops at most batch-size entries, and each entry
\* popped for the call was popped once, also when the call ends in an error.
C20_OneExecution ==
    \A c \in Callers :
        /\ Client(c).pc # "idle" => Client(c).ran = 1
        /\ Request(c).execs <= 1
        /\ Request(c).req \in {"running", "replied"} => Request(c).execs = 1
        /\ Len(Request(c).lua) <= Request(c).size
        /\ \A id \in IdsOf(Request(c).lua) : pops[id] = 1

\* A call has returned an error after its script was executed and popped a
\* full batch, while the queue still holds entries.
C20_Witness ==
    \E c \in Callers :
        /\ Client(c).pc = "done"
        /\ Client(c).err # "nil"
        /\ Client(c).ran = 1
        /\ Request(c).req = "replied"
        /\ Request(c).execs = 1
        /\ Len(Request(c).lua) = Request(c).size
        /\ Request(c).left # <<>>
        /\ store[Request(c).key[1]] # <<>>

----------------------------------------------------------------------------
\* How often the entry occurs in the lists of the store.
Occurrences(id) ==
    Cardinality({<<k, j>> \in Keys \X (1..MaxPush) :
                    j <= Len(store[k]) /\ store[k][j].id = id})

\* The entry was popped for a call that is still waiting for its outcome.
InFlight(id) ==
    \E c \in Callers : Client(c).pc = "run" /\ id \in IdsOf(Request(c).lua)

\* Where a pushed entry is: in a queue, returned decoded by one Fetch,
\* dropped by one Fetch that could not decode it, popped for a Fetch that
\* ended in an error, or popped for a call that has not returned yet.
Places(id) ==
    {p \in {"queue", "returned", "dropped", "lost", "in flight"} :
        \/ p = "queue" /\ InStore(id) /\ pops[id] = 0
        \/ /\ p = "returned"
           /\ pops[id] = 1 /\ returns[id] = 1
           /\ Decode(pushed[id]).err = "nil"
        \/ /\ p = "dropped"
           /\ pops[id] = 1 /\ returns[id] = 0
           /\ Decode(pushed[id]).err # "nil"
           /\ id \notin lost /\ ~InFlight(id)
        \/ p = "lost" /\ pops[id] = 1 /\ id \in lost
        \/ p = "in flight" /\ pops[id] = 1 /\ InFlight(id)}

\* No call is under way: every caller is idle or has its result, and no
\* request is at the server.
Quiescent ==
    /\ srvBusy = "none"
    /\ \A c \in Callers :
          /\ Client(c).pc \in {"idle", "done"}
          /\ Request(c).req \in {"none", "replied"}

\* C21: every pushed entry is in exactly one place: once in a queue,
\* returned decoded by exactly one Fetch, dropped by one Fetch because it
\* did not decode, or popped for a Fetch that ended in an error (or, while
\* calls are under way, popped for a call that has not returned); and every
\* item a Fetch returns is the decoding of a pushed entry, each entry at
\* most once.
C21_Conservation ==
    /\ \A id \in Ids :
          IF pushed[id] = <<>>
          THEN ~InStore(id) /\ pops[id] = 0 /\ returns[id] = 0
          ELSE /\ Cardinality(Places(id)) = 1
               /\ InStore(id) => Occurrences(id) = 1
               /\ Quiescent => "in flight" \notin Places(id)
    /\ \A c \in Callers :
          LET items == Client(c).tasks.items IN
          /\ \A j \in 1..Len(items) :
                /\ items[j].src \in Ids
                /\ pushed[items[j].src] # <<>>
                /\ Decode(pushed[items[j].src]).err = "nil"
                /\ items[j].val = Decode(pushed[items[j].src]).val
                /\ returns[items[j].src] = 1
          /\ \A i, j \in 1..Len(items) : i # j => items[i].src # items[j].src

\* With no call under way and no push left, one entry was dropped because
\* it did not decode and the other was popped for a call that failed.
C21_Witness ==
    /\ Quiescent
    /\ nextId > MaxPush
    /\ \E id, jd \in Ids :
          /\ Places(id) = {"dropped"}
          /\ Places(jd) = {"lost"}

----------------------------------------------------------------------------
\* A Fetch on q1 returns without error.
FetchSucceeds ==
    \E c \in Callers :
        /\ RunResult(c)
        /\ calls[c].rq.key = <<"q1">>
        /\ calls[c].rq.reply.err = "nil"

\* C22: when the producers stop pushing and Fetch calls on q1 keep being
\* made and keep succeeding, q1 becomes empty and stays empty; a successful
\* Fetch whose script found entries has shortened the list; and a successful
\* Fetch whose script found the list empty returns an empty sequence and no
\* error.
C22_Drains ==
    /\ (<>[][nextId' = nextId]_vars /\ []<><<FetchSucceeds>>_vars)
           => <>[](store["q1"] = <<>>)
    /\ [](\A c \in Callers :
            (Delivered(c) /\ Client(c).err = "nil") =>
                /\ Request(c).snap # <<>> =>
                       Len(Request(c).left) < Len(Request(c).snap)
                /\ Request(c).snap = <<>> =>
                       /\ Client(c).tasks = EmptySlice
                       /\ Request(c).left = <<>>)

\* All pushes are made, a Fetch on q1 has returned an entry of q1, q1 is
\* empty and a later Fetch on it has returned the empty sequence.
C22_Witness ==
    /\ nextId > MaxPush
    /\ store["q1"] = <<>>
    /\ \E id \in Ids : pushedTo[id] = "q1" /\ returns[id] = 1
    /\ \E c \in Callers :
          /\ Delivered(c)
          /\ Client(c).err = "nil"
          /\ Request(c).key = <<"q1">>
          /\ Request(c).snap = <<>>
          /\ Client(c).tasks = EmptySlice

============================================================================
